---- MODULE Spec2Model ----
(***************************************************************************)
(* Model of the renovation pricing engine: MaterialDB, LaborCalculator,    *)
(* VATCalculator and SmartPricingEngine.                                   *)
(*                                                                         *)
(* Numbers.  The program computes with binary floating point on decimal    *)
(* inputs.  The model computes the exact decimal value of every            *)
(* expression in scaled integers and models round(x, n) as rounding of     *)
(* that exact value; when the exact value lies exactly halfway between     *)
(* two representable results the binary representation decides the         *)
(* direction, so the model allows both neighbours (Round yields a set).    *)
(* Units: room sizes in 1/1000 m2, hours in 1/1000 h, rates (margin, VAT)  *)
(* in 1/1000, rounded money in cents, city multipliers in 1/100, and the   *)
(* per-task total_price and the running zone_total in 1/10000 euro (E4),   *)
(* because the code multiplies them by the city multiplier after rounding. *)
(***************************************************************************)
EXTENDS Integers, Sequences, FiniteSets, TLC

\* ------------------------------------------------------------------------
\* Bounds of the model
\* ------------------------------------------------------------------------
MaxTasks == 3
MaxFlags == 2
MaxConfFlags == 11
MaxConfTasks == 4
MaxFactors == 2

\* ------------------------------------------------------------------------
\* Exact decimal arithmetic (little-endian digit sequences)
\* ------------------------------------------------------------------------
Abs(x) == IF x < 0 THEN 0 - x ELSE x

Max2(a, b) == IF a >= b THEN a ELSE b

Min2(a, b) == IF a <= b THEN a ELSE b

RECURSIVE ToDigits(_)
ToDigits(n) == IF n = 0 THEN <<>> ELSE <<n % 10>> \o ToDigits(n \div 10)

RECURSIVE FromDigits(_)
FromDigits(d) == IF d = <<>> THEN 0 ELSE Head(d) + 10 * FromDigits(Tail(d))

RECURSIVE MulCarry(_, _, _)
MulCarry(d, k, carry) ==
  IF d = <<>> THEN ToDigits(carry)
  ELSE LET t == Head(d) * k + carry
       IN  <<t % 10>> \o MulCarry(Tail(d), k, t \div 10)

\* the exact product of a digit sequence and a non-negative integer
BigMul(d, k) == MulCarry(d, k, 0)

\* digits of d from position n upward (the quotient by 10^n)
DropLow(d, n) == IF Len(d) <= n THEN <<>> ELSE SubSeq(d, n + 1, Len(d))

\* digit of d at 0-based position i
DigitAt(d, i) == IF i < 0 \/ i >= Len(d) THEN 0 ELSE d[i + 1]

LowIsZero(d, n) == \A i \in 1..Min2(n, Len(d)) : d[i] = 0

\* round(x, .) of the non-negative exact value d / 10^n to an integer:
\* the nearest integer, either neighbour at an exact tie
RoundDigits(d, n) ==
  LET q == FromDigits(DropLow(d, n))
      h == DigitAt(d, n - 1)
  IN  IF n = 0 THEN {q}
      ELSE IF h < 5 THEN {q}
      ELSE IF h > 5 \/ ~LowIsZero(d, n - 1) THEN {q + 1}
      ELSE {q, q + 1}

\* round(x * k1 * k2 / 10^n) for an integer x of either sign and k1, k2 >= 0
RoundProd(x, k1, k2, n) ==
  LET r == RoundDigits(BigMul(BigMul(ToDigits(Abs(x)), k1), k2), n)
  IN  IF x < 0 THEN {0 - v : v \in r} ELSE r

\* round(x / 10^n)
Round(x, n) == RoundProd(x, 1, 1, n)

RECURSIVE SumOver(_, _)
SumOver(f, S) ==
  IF S = {} THEN 0
  ELSE LET x == CHOOSE y \in S : TRUE
       IN  f[x] + SumOver(f, S \ {x})

\* ------------------------------------------------------------------------
\* Reference tables
\* ------------------------------------------------------------------------
\* MaterialDB.materials_data (euros; the item lists play no part in pricing)
materials_data ==
  [ tile_removal |->
      [ budget_conscious |-> [cost_per_m2 |-> 15],
        standard         |-> [cost_per_m2 |-> 20],
        premium          |-> [cost_per_m2 |-> 25] ],
    plumbing |->
      [ budget_conscious |-> [base_cost |-> 180, cost_per_m2 |-> 25],
        standard         |-> [base_cost |-> 250, cost_per_m2 |-> 35],
        premium          |-> [base_cost |-> 400, cost_per_m2 |-> 50] ],
    toilet_replacement |->
      [ budget_conscious |-> [base_cost |-> 120],
        standard         |-> [base_cost |-> 280],
        premium          |-> [base_cost |-> 650] ],
    vanity_installation |->
      [ budget_conscious |-> [base_cost |-> 200, cost_per_m2 |-> 15],
        standard         |-> [base_cost |-> 450, cost_per_m2 |-> 25],
        premium          |-> [base_cost |-> 900, cost_per_m2 |-> 40] ],
    painting |->
      [ budget_conscious |-> [cost_per_m2 |-> 8],
        standard         |-> [cost_per_m2 |-> 12],
        premium          |-> [cost_per_m2 |-> 18] ],
    floor_installation |->
      [ budget_conscious |-> [cost_per_m2 |-> 35],
        standard         |-> [cost_per_m2 |-> 55],
        premium          |-> [cost_per_m2 |-> 85] ],
    general_renovation |->
      [ budget_conscious |-> [cost_per_m2 |-> 50],
        standard         |-> [cost_per_m2 |-> 80],
        premium          |-> [cost_per_m2 |-> 120] ] ]

\* the fallback rates of get_material_cost for a task without a record
base_cost_per_m2 == [budget_conscious |-> 30, standard |-> 50, premium |-> 80]

\* LaborCalculator.labor_hours_data: base_hours in hours, hours_per_m2 and
\* difficulty_multiplier in tenths
labor_hours_data ==
  [ tile_removal |->
      [base_hours |-> 2, hours_per_m2 |-> 15, difficulty_multiplier |-> 10,
       skill_level |-> "general"],
    plumbing |->
      [base_hours |-> 4, hours_per_m2 |-> 25, difficulty_multiplier |-> 14,
       skill_level |-> "specialized"],
    toilet_replacement |->
      [base_hours |-> 3, hours_per_m2 |-> 0, difficulty_multiplier |-> 11,
       skill_level |-> "general"],
    vanity_installation |->
      [base_hours |-> 4, hours_per_m2 |-> 10, difficulty_multiplier |-> 12,
       skill_level |-> "general"],
    painting |->
      [base_hours |-> 1, hours_per_m2 |-> 8, difficulty_multiplier |-> 9,
       skill_level |-> "general"],
    floor_installation |->
      [base_hours |-> 3, hours_per_m2 |-> 20, difficulty_multiplier |-> 13,
       skill_level |-> "specialized"],
    general_renovation |->
      [base_hours |-> 8, hours_per_m2 |-> 30, difficulty_multiplier |-> 10,
       skill_level |-> "general"] ]

\* LaborCalculator.hourly_rates (euros per hour)
hourly_rates ==
  [ paris     |-> [general |-> 45, specialized |-> 65, expert |-> 85],
    marseille |-> [general |-> 35, specialized |-> 50, expert |-> 70],
    lyon      |-> [general |-> 40, specialized |-> 58, expert |-> 78],
    toulouse  |-> [general |-> 32, specialized |-> 46, expert |-> 65],
    nice      |-> [general |-> 42, specialized |-> 60, expert |-> 80],
    nantes    |-> [general |-> 38, specialized |-> 54, expert |-> 74],
    bordeaux  |-> [general |-> 39, specialized |-> 56, expert |-> 76] ]

\* LaborCalculator.complexity_multipliers (hundredths)
complexity_multipliers ==
  [ small_room |-> 110, standard_room |-> 100, large_room |-> 95,
    difficult_access |-> 130, old_building |-> 120, new_construction |-> 90 ]

\* VATCalculator.vat_rates (thousandths)
vat_rates ==
  [ france  |-> [standard |-> 200, reduced |-> 100, super_reduced |-> 55,
                 zero |-> 0],
    germany |-> [standard |-> 190, reduced |-> 70, zero |-> 0],
    spain   |-> [standard |-> 210, reduced |-> 100, super_reduced |-> 40,
                 zero |-> 0],
    italy   |-> [standard |-> 220, reduced |-> 100, super_reduced |-> 40,
                 zero |-> 0] ]

ReducedExceptGermany ==
  [france |-> "reduced", germany |-> "standard", spain |-> "reduced",
   italy |-> "reduced"]

StandardEverywhere ==
  [france |-> "standard", germany |-> "standard", spain |-> "standard",
   italy |-> "standard"]

SuperReducedExceptGermany ==
  [france |-> "super_reduced", germany |-> "reduced",
   spain |-> "super_reduced", italy |-> "super_reduced"]

\* VATCalculator.task_vat_categories
task_vat_categories ==
  [ tile_removal        |-> ReducedExceptGermany,
    plumbing            |-> ReducedExceptGermany,
    toilet_replacement  |-> StandardEverywhere,
    vanity_installation |-> StandardEverywhere,
    painting            |-> ReducedExceptGermany,
    floor_installation  |-> ReducedExceptGermany,
    general_renovation  |-> ReducedExceptGermany,
    energy_efficiency   |-> SuperReducedExceptGermany ]

\* override tables that name super_reduced for every country
UniformOverrides ==
  [ accessibility_improvements |->
      [c \in DOMAIN vat_rates |-> "super_reduced"],
    energy_certification |->
      [c \in DOMAIN vat_rates |-> "super_reduced"] ]

\* VATCalculator.vat_conditions (the two override tables get_vat_rate reads)
vat_conditions ==
  [ accessibility_improvements |-> SuperReducedExceptGermany,
    energy_certification       |-> SuperReducedExceptGermany ]

\* SmartPricingEngine.city_multipliers (hundredths)
city_multipliers ==
  [ paris |-> 125, marseille |-> 100, lyon |-> 115, toulouse |-> 95,
    nice |-> 120, nantes |-> 105, bordeaux |-> 110 ]

\* SmartPricingEngine.base_margin and margin_protection_min (thousandths)
base_margin == 200

margin_protection_min == 150

complex_tasks == {"plumbing", "tile_removal", "floor_installation"}

\* str.lower() on the strings the model uses
Lower(s) ==
  CASE s = "Paris"   -> "paris"
    [] s = "LYON"    -> "lyon"
    [] s = "France"  -> "france"
    [] s = "GERMANY" -> "germany"
    [] OTHER         -> s

\* ------------------------------------------------------------------------
\* Inputs
\* ------------------------------------------------------------------------
ConfiguredTasks == DOMAIN materials_data

\* task identifiers: the configured ones, one known to the VAT table only,
\* and one absent from every table
TaskIds == ConfiguredTasks \cup {"energy_efficiency", "demolition_extra"}

Budgets == {"budget_conscious", "standard", "premium", "luxury"}

ValidBudgets == DOMAIN base_cost_per_m2

Locations == {"paris", "marseille", "lyon", "Paris", "nowhere"}

Countries == {"france", "germany", "spain", "italy", "GERMANY", "France",
              "belgium"}

\* room sizes in 1/1000 m2
RoomSizes ==
  {-5000, 0} \cup (1..40) \cup {k * 1001 : k \in 1..30}
  \cup {1500, 2000, 4999, 5000, 6000, 10000, 12345, 15000, 15010, 30000,
        30100}

Subtotals == {-100000, 0, 1, 484500, 10000000}

\* ------------------------------------------------------------------------
\* MaterialDB
\* ------------------------------------------------------------------------
KeyError == [ok |-> FALSE, err |-> "KeyError"]

Ok(v) == [ok |-> TRUE, v |-> v]

\* material cost in 1/1000 euro
get_material_cost(task, room_size, budget_preference) ==
  IF task \notin DOMAIN materials_data
  THEN Ok(room_size * (IF budget_preference \in DOMAIN base_cost_per_m2
                       THEN base_cost_per_m2[budget_preference]
                       ELSE 50))
  ELSE IF budget_preference \notin DOMAIN materials_data[task]
  THEN KeyError
  ELSE LET task_data == materials_data[task][budget_preference]
           c0 == IF "base_cost" \in DOMAIN task_data
                 THEN task_data.base_cost * 1000 ELSE 0
           c1 == IF "cost_per_m2" \in DOMAIN task_data
                 THEN c0 + task_data.cost_per_m2 * room_size ELSE c0
       IN  Ok(c1)

\* ------------------------------------------------------------------------
\* LaborCalculator
\* ------------------------------------------------------------------------
\* total_hours after the caller's factors: digits of |total_hours| and the
\* number n of factors applied (the value is digits / 10^(5 + 2n) hours)
RECURSIVE ApplyFactors(_, _, _)
ApplyFactors(d, n, complexity_factors) ==
  IF complexity_factors = <<>> THEN [d |-> d, n |-> n]
  ELSE LET factor == Head(complexity_factors)
       IN  IF factor \in DOMAIN complexity_multipliers
           THEN ApplyFactors(BigMul(d, complexity_multipliers[factor]), n + 1,
                             Tail(complexity_factors))
           ELSE ApplyFactors(d, n, Tail(complexity_factors))

\* labor hours with the room-size factor applied only when the caller gave
\* no complexity factors
LaborHoursRoomFactorElse(task, room_size, complexity_factors) ==
  IF task \notin DOMAIN labor_hours_data
  THEN {Max2(4000, room_size * 2)}
  ELSE LET task_data == labor_hours_data[task]
           total_hours == (task_data.base_hours * 10000
                           + task_data.hours_per_m2 * room_size)
                          * task_data.difficulty_multiplier
           f == ApplyFactors(ToDigits(Abs(total_hours)), 0,
                             complexity_factors)
           g == IF complexity_factors # <<>> THEN f
                ELSE IF room_size < 5000
                THEN [d |-> BigMul(f.d, complexity_multipliers.small_room),
                      n |-> f.n + 1]
                ELSE IF room_size > 15000
                THEN [d |-> BigMul(f.d, complexity_multipliers.large_room),
                      n |-> f.n + 1]
                ELSE f
           r == RoundDigits(g.d, 3 + 2 * g.n)
       IN  {(IF total_hours < 0 THEN 0 - v ELSE v) * 10 : v \in r}

\* labor hours in 1/1000 h; a set because of round(total_hours, 2)
calculate_labor_hours(task, room_size, complexity_factors) ==
  IF task \notin DOMAIN labor_hours_data
  THEN {Max2(4000, room_size * 2)}
  ELSE LET task_data == labor_hours_data[task]
           \* (base_hours + variable_hours) * difficulty_multiplier, 1e-5 h
           total_hours == (task_data.base_hours * 10000
                           + task_data.hours_per_m2 * room_size)
                          * task_data.difficulty_multiplier
           f == ApplyFactors(ToDigits(Abs(total_hours)), 0,
                             complexity_factors)
           g == IF room_size < 5000
                THEN [d |-> BigMul(f.d, complexity_multipliers.small_room),
                      n |-> f.n + 1]
                ELSE IF room_size > 15000
                THEN [d |-> BigMul(f.d, complexity_multipliers.large_room),
                      n |-> f.n + 1]
                ELSE f
           r == RoundDigits(g.d, 3 + 2 * g.n)
       IN  {(IF total_hours < 0 THEN 0 - v ELSE v) * 10 : v \in r}

\* the hourly rate with another city as the default
HourlyRateDefaultParis(city, task) ==
  LET city_lower == IF Lower(city) \notin DOMAIN hourly_rates
                    THEN "paris" ELSE Lower(city)
      skill_level == IF task \in DOMAIN labor_hours_data
                     THEN labor_hours_data[task].skill_level
                     ELSE "general"
  IN  hourly_rates[city_lower][skill_level]

get_hourly_rate(city, task) ==
  LET city_lower == IF Lower(city) \notin DOMAIN hourly_rates
                    THEN "marseille" ELSE Lower(city)
      skill_level == IF task \in DOMAIN labor_hours_data
                     THEN labor_hours_data[task].skill_level
                     ELSE "general"
  IN  hourly_rates[city_lower][skill_level]

\* ------------------------------------------------------------------------
\* VATCalculator
\* ------------------------------------------------------------------------
ConditionKeys == {"energy_efficiency", "accessibility_improvements",
                  "building_age_years"}

\* conditions=None
NoConditions ==
  [present |-> FALSE, keys |-> {}, energy_efficiency |-> FALSE,
   accessibility_improvements |-> FALSE, building_age_years |-> 0]

\* the conditions mappings: a value counts only when its key is present
Conditions ==
  {NoConditions} \cup
  { c \in [present : {TRUE}, keys : SUBSET ConditionKeys,
           energy_efficiency : BOOLEAN,
           accessibility_improvements : BOOLEAN,
           building_age_years : {0, 2, 3}] :
      /\ "energy_efficiency" \notin c.keys => c.energy_efficiency = FALSE
      /\ "accessibility_improvements" \notin c.keys
           => c.accessibility_improvements = FALSE
      /\ "building_age_years" \notin c.keys => c.building_age_years = 0 }

\* conditions.get(key, default)
CondGet(conditions, key, default) ==
  IF key \in conditions.keys THEN conditions[key] ELSE default

\* dict.get(key, default) on a table
TableGet(table, key, default) ==
  IF key \in DOMAIN table THEN table[key] ELSE default

\* the conditions with the building-age rule applied in every country
ApplyVatConditionsAnyCountry(base_category, country, conditions) ==
  IF CondGet(conditions, "energy_efficiency", FALSE)
  THEN TableGet(vat_conditions.energy_certification, country, base_category)
  ELSE IF CondGet(conditions, "accessibility_improvements", FALSE)
  THEN TableGet(vat_conditions.accessibility_improvements, country,
                base_category)
  ELSE IF CondGet(conditions, "building_age_years", 0) > 2
          /\ base_category = "standard"
  THEN "reduced"
  ELSE base_category

_apply_vat_conditions(base_category, country, conditions) ==
  IF CondGet(conditions, "energy_efficiency", FALSE)
  THEN TableGet(vat_conditions.energy_certification, country, base_category)
  ELSE IF CondGet(conditions, "accessibility_improvements", FALSE)
  THEN TableGet(vat_conditions.accessibility_improvements, country,
                base_category)
  ELSE IF country = "france"
          /\ CondGet(conditions, "building_age_years", 0) > 2
          /\ base_category = "standard"
  THEN "reduced"
  ELSE base_category

\* the category get_vat_rate looks up in the rate table of country_lower
VatCategory(task, country_lower, conditions) ==
  LET vat_category == IF task \in DOMAIN task_vat_categories
                      THEN TableGet(task_vat_categories[task], country_lower,
                                    "standard")
                      ELSE "standard"
  IN  IF conditions.present /\ conditions.keys # {}
      THEN _apply_vat_conditions(vat_category, country_lower, conditions)
      ELSE vat_category

VatCountry(country) ==
  IF Lower(country) \notin DOMAIN vat_rates THEN "france" ELSE Lower(country)

\* VAT rate in 1/1000, or KeyError when the category has no rate
get_vat_rate(task, country, conditions) ==
  LET country_lower == VatCountry(country)
      vat_category == VatCategory(task, country_lower, conditions)
  IN  IF vat_category \in DOMAIN vat_rates[country_lower]
      THEN Ok(vat_rates[country_lower][vat_category])
      ELSE KeyError

\* ------------------------------------------------------------------------
\* SmartPricingEngine: per-task pricing
\* ------------------------------------------------------------------------
\* a margin with a deeper budget discount and no protection floor
UnprotectedMargin(task, budget_pref, subtotal) ==
  LET m1 == IF budget_pref = "budget_conscious" THEN base_margin * 7
            ELSE IF budget_pref = "premium" THEN base_margin * 13
            ELSE base_margin * 10
  IN  IF task \in complex_tasks THEN m1 * 11 ELSE m1 * 10

\* margin rate in 1/100000 (base_margin times two factors in tenths)
_calculate_dynamic_margin(task, budget_pref, subtotal) ==
  LET m1 == IF budget_pref = "budget_conscious" THEN base_margin * 8
            ELSE IF budget_pref = "premium" THEN base_margin * 13
            ELSE base_margin * 10
      m2 == IF task \in complex_tasks THEN m1 * 11 ELSE m1 * 10
  IN  Max2(m2, margin_protection_min * 100)

\* the total with the VAT left out
TotalPriceWithoutVat(subtotal, margin, vat) ==
  RoundProd(subtotal, 100000 + margin, 1000, 9)

\* round(total_price, 2) in cents, from subtotal (1e-3 euro), the margin
\* rate (1e-5) and the VAT rate (1e-3): lines 109-115 and 128
TotalPrice(subtotal, margin, vat) ==
  RoundProd(subtotal, 100000 + margin, 1000 + vat, 9)

\* the records _calculate_task_pricing can return once labor_hours is known
PricingWithHours(task, location, budget_pref, materials, labor_hours, vat) ==
  LET labor_rate == get_hourly_rate(location, task)
      labor_cost == labor_hours * labor_rate
      subtotal   == materials + labor_cost
      margin     == _calculate_dynamic_margin(task, budget_pref, subtotal)
  IN  { [ok |-> TRUE,
         task_name |-> task,
         materials_cost |-> mc,
         labor_hours |-> labor_hours,
         labor_rate |-> labor_rate,
         labor_cost |-> lc,
         subtotal |-> st,
         margin_rate |-> mr,
         margin_amount |-> ma,
         vat_rate |-> vr,
         vat_amount |-> va,
         total_price |-> tp * 100] :
        mc \in Round(materials, 1),
        lc \in Round(labor_cost, 1),
        st \in Round(subtotal, 1),
        mr \in Round(margin, 2),
        ma \in RoundProd(subtotal, margin, 1, 6),
        vr \in Round(vat, 0),
        va \in RoundProd(subtotal, 100000 + margin, vat, 9),
        tp \in TotalPrice(subtotal, margin, vat) }

\* every outcome of _calculate_task_pricing: a TaskPricing record, or the
\* KeyError a missing table entry raises
_calculate_task_pricing(task, room_size, location, budget_pref) ==
  LET materials == get_material_cost(task, room_size, budget_pref)
      vat == get_vat_rate(task, "france", NoConditions)
  IN  IF ~materials.ok THEN {KeyError}
      ELSE IF ~vat.ok THEN {KeyError}
      ELSE UNION { PricingWithHours(task, location, budget_pref, materials.v,
                                    h, vat.v) :
                   h \in calculate_labor_hours(task, room_size, <<>>) }

\* ------------------------------------------------------------------------
\* SmartPricingEngine: quote composition
\* ------------------------------------------------------------------------
\* the multiplier applied a second time
ScaleByCityTwice(x, city_multiplier) ==
  ((x \div 100) * city_multiplier * city_multiplier) \div 100

\* x *= city_multiplier for x in E4 that is a whole number of cents
ScaleByCity(x, city_multiplier) == (x \div 100) * city_multiplier

\* self.city_multipliers.get(location, 1.0)
CityMultiplier(location) == TableGet(city_multipliers, location, 100)

\* round(x / n) for x >= 0 and n > 0, either neighbour at an exact tie
RoundDiv(x, n) ==
  LET q == x \div n
      r == x % n
  IN  IF 2 * r < n THEN {q}
      ELSE IF 2 * r > n THEN {q + 1}
      ELSE {q, q + 1}

ZeroDivisionError == [ok |-> FALSE, err |-> "ZeroDivisionError"]

\* the average without the guard for an empty mapping
AverageMarginUnguarded(tasks) ==
  IF DOMAIN tasks = {} THEN {ZeroDivisionError}
  ELSE LET total_margin ==
             SumOver([t \in DOMAIN tasks |-> tasks[t].margin_rate],
                     DOMAIN tasks)
       IN  {Ok(v) : v \in RoundDiv(total_margin, Cardinality(DOMAIN tasks))}

\* average margin in 1/1000
_calculate_average_margin(tasks) ==
  IF DOMAIN tasks = {} THEN {Ok(0)}
  ELSE LET total_margin ==
             SumOver([t \in DOMAIN tasks |-> tasks[t].margin_rate],
                     DOMAIN tasks)
       IN  {Ok(v) : v \in RoundDiv(total_margin, Cardinality(DOMAIN tasks))}

\* the score without the final clamp
ConfidenceUnclamped(parsed_data, tasks) ==
  LET c1 == 100 - 10 * Len(parsed_data.confidence_flags)
      c2 == IF Len(parsed_data.tasks) < 3 THEN c1 - 10 ELSE c1
      c3 == IF parsed_data.room_size < 2000 \/ parsed_data.room_size > 30000
            THEN c2 - 15 ELSE c2
  IN  IF parsed_data.location \in DOMAIN city_multipliers
      THEN c3 + 5 ELSE c3

\* confidence score in 1/100
_calculate_confidence_score(parsed_data, tasks) ==
  LET c1 == 100 - 10 * Len(parsed_data.confidence_flags)
      c2 == IF Len(parsed_data.tasks) < 3 THEN c1 - 10 ELSE c1
      c3 == IF parsed_data.room_size < 2000 \/ parsed_data.room_size > 30000
            THEN c2 - 15 ELSE c2
      c4 == IF parsed_data.location \in DOMAIN city_multipliers
            THEN c3 + 5 ELSE c3
  IN  Max2(0, Min2(100, c4))

\* the rounded sum with the multiplier left out
SummaryTotalUnscaled(total, city_multiplier) == {total}

\* round(total * city_multiplier, 2) of a sum of cents (lines 87-90)
SummaryTotal(total, city_multiplier) ==
  RoundProd(total, city_multiplier, 1, 2)

\* the summary mappings generate_quote can build (lines 81-94)
Summaries(tasks, total, city_multiplier) ==
  LET T == DOMAIN tasks
      total_materials == SumOver([t \in T |-> tasks[t].materials_cost], T)
      total_labor == SumOver([t \in T |-> tasks[t].labor_cost], T)
      total_before_vat == total_materials + total_labor
      total_vat == SumOver([t \in T |-> tasks[t].vat_amount], T)
  IN  { [ok |-> am.ok,
         total_materials |-> tm,
         total_labor |-> tl,
         subtotal_before_vat |-> sb,
         total_vat |-> tv,
         total_price |-> tp,
         city_multiplier |-> city_multiplier,
         average_margin |-> IF am.ok THEN am.v ELSE 0] :
        tm \in SummaryTotal(total_materials, city_multiplier),
        tl \in SummaryTotal(total_labor, city_multiplier),
        sb \in SummaryTotal(total_before_vat, city_multiplier),
        tv \in SummaryTotal(total_vat, city_multiplier),
        tp \in Round(total, 2),
        am \in _calculate_average_margin(tasks) }

\* ------------------------------------------------------------------------
\* State
\* ------------------------------------------------------------------------
VARIABLES
  pc,          \* position in generate_quote, or in the call of a function
  parsed,      \* parsed_data, the result of parse_transcript
  idx,         \* index of the next task of the pricing loop
  zone_tasks,  \* task -> TaskPricing (also quote.pricing.zones[zone].tasks)
  returned,    \* task -> the record _calculate_task_pricing returned for it
  zone_total,  \* running zone total, E4
  quote,       \* the zone_total, summary and confidence_score of the quote
  call         \* arguments and result of a function called on its own

vars == <<pc, parsed, idx, zone_tasks, returned, zone_total, quote, call>>

NoCall == [op |-> "none"]

NoParsed == [location |-> "nowhere", budget_preference |-> "standard",
             room_size |-> 0, tasks |-> <<>>, confidence_flags |-> <<>>]

NoSummary == [ok |-> FALSE, total_materials |-> 0, total_labor |-> 0,
              subtotal_before_vat |-> 0, total_vat |-> 0, total_price |-> 0,
              city_multiplier |-> 0, average_margin |-> 0]

\* the quote before its pricing part is filled in (lines 36-54)
EmptyQuote == [zone_total |-> 0, summary |-> NoSummary,
               confidence_score |-> 0]

Pending == [ok |-> FALSE, err |-> "pending"]

SeqsUpTo(S, n) == UNION { [1..k -> S] : k \in 0..n }

QuoteTasks == {"painting", "plumbing", "demolition_extra"}

QuoteLocations == {"paris", "Paris", "nowhere"}

QuoteBudgets == {"standard", "luxury"}

QuoteRoomSizes == {-5000, 0, 1500, 10000, 30100}

\* the parsed inputs generate_quote works on
ParsedInputs ==
  [ location : QuoteLocations,
    budget_preference : QuoteBudgets,
    room_size : QuoteRoomSizes,
    tasks : SeqsUpTo(QuoteTasks, MaxTasks),
    confidence_flags : SeqsUpTo({"room_size_estimated"}, MaxFlags) ]

\* ------------------------------------------------------------------------
\* generate_quote
\* ------------------------------------------------------------------------
Init ==
  /\ pc = "loop"
  /\ parsed \in ParsedInputs
  /\ idx = 1
  /\ zone_tasks = <<>>
  /\ returned = <<>>
  /\ zone_total = 0
  /\ quote = EmptyQuote
  /\ call = NoCall

\* one iteration of the pricing loop (lines 59-67)
PriceTask ==
  /\ pc = "loop"
  /\ idx <= Len(parsed.tasks)
  /\ LET task == parsed.tasks[idx]
     IN  \E task_quote \in _calculate_task_pricing(task, parsed.room_size,
                             parsed.location, parsed.budget_preference) :
           /\ task_quote.ok
           /\ zone_tasks' = (task :> task_quote) @@ zone_tasks
           /\ returned' = (task :> task_quote) @@ returned
           /\ zone_total' = zone_total + task_quote.total_price
  /\ idx' = idx + 1
  /\ UNCHANGED <<pc, parsed, quote, call>>

\* an iteration in which _calculate_task_pricing raises
PriceTaskRaises ==
  /\ pc = "loop"
  /\ idx <= Len(parsed.tasks)
  /\ \E task_quote \in _calculate_task_pricing(parsed.tasks[idx],
                         parsed.room_size, parsed.location,
                         parsed.budget_preference) :
       /\ ~task_quote.ok
       /\ pc' = "raised"
  /\ UNCHANGED <<parsed, idx, zone_tasks, returned, zone_total, quote, call>>

\* after the loop: the city multiplier and the zone entry (lines 69-79)
ApplyCityMultiplier ==
  /\ pc = "loop"
  /\ idx > Len(parsed.tasks)
  /\ LET city_multiplier == CityMultiplier(parsed.location)
         total == ScaleByCity(zone_total, city_multiplier)
     IN  /\ zone_total' = total
         /\ zone_tasks' =
              [task \in DOMAIN zone_tasks |->
                 [zone_tasks[task] EXCEPT
                    !.total_price = ScaleByCity(@, city_multiplier)]
                 @@ [city_multiplier |-> city_multiplier]]
         /\ \E zt \in Round(total, 2) :
              quote' = [quote EXCEPT !.zone_total = zt]
  /\ pc' = "summary"
  /\ UNCHANGED <<parsed, idx, returned, call>>

\* the summary (lines 81-94); a failing average propagates to the caller
Summarize ==
  /\ pc = "summary"
  /\ \E summary \in Summaries(zone_tasks, zone_total,
                              CityMultiplier(parsed.location)) :
       IF summary.ok
       THEN quote' = [quote EXCEPT !.summary = summary] /\ pc' = "confidence"
       ELSE quote' = quote /\ pc' = "raised"
  /\ UNCHANGED <<parsed, idx, zone_tasks, returned, zone_total, call>>

\* the confidence score and the return (lines 96-98)
ScoreAndReturn ==
  /\ pc = "confidence"
  /\ quote' = [quote EXCEPT !.confidence_score =
                 _calculate_confidence_score(parsed, zone_tasks)]
  /\ pc' = "done"
  /\ UNCHANGED <<parsed, idx, zone_tasks, returned, zone_total, call>>

Next ==
  \/ PriceTask
  \/ PriceTaskRaises
  \/ ApplyCityMultiplier
  \/ Summarize
  \/ ScoreAndReturn

Spec == Init /\ [][Next]_vars

\* ------------------------------------------------------------------------
\* Per-task pricing called on its own
\* ------------------------------------------------------------------------
Idle ==
  /\ parsed = NoParsed
  /\ idx = 1
  /\ zone_tasks = <<>>
  /\ returned = <<>>
  /\ zone_total = 0
  /\ quote = EmptyQuote

PricingCalls ==
  [ op : {"_calculate_task_pricing"}, task : TaskIds, room_size : RoomSizes,
    location : Locations, budget_pref : Budgets, result : {Pending} ]

MarginCalls ==
  [ op : {"_calculate_dynamic_margin"}, task : TaskIds,
    budget_pref : Budgets, subtotal : Subtotals, result : {Pending} ]

InitPricing ==
  /\ pc = "call"
  /\ call \in PricingCalls \cup MarginCalls
  /\ Idle

CalculateTaskPricing ==
  /\ pc = "call"
  /\ call.op = "_calculate_task_pricing"
  /\ \E r \in _calculate_task_pricing(call.task, call.room_size,
                                      call.location, call.budget_pref) :
       call' = [call EXCEPT !.result = r]
  /\ pc' = "returned"
  /\ UNCHANGED <<parsed, idx, zone_tasks, returned, zone_total, quote>>

CalculateDynamicMargin ==
  /\ pc = "call"
  /\ call.op = "_calculate_dynamic_margin"
  /\ call' = [call EXCEPT !.result =
                Ok(_calculate_dynamic_margin(call.task, call.budget_pref,
                                             call.subtotal))]
  /\ pc' = "returned"
  /\ UNCHANGED <<parsed, idx, zone_tasks, returned, zone_total, quote>>

NextPricing == CalculateTaskPricing \/ CalculateDynamicMargin

SpecPricing == InitPricing /\ [][NextPricing]_vars

\* ------------------------------------------------------------------------
\* get_vat_rate called on its own
\* ------------------------------------------------------------------------
VatCalls ==
  [ op : {"get_vat_rate"}, task : TaskIds, country : Countries,
    conditions : Conditions, result : {Pending} ]

InitVat ==
  /\ pc = "call"
  /\ call \in VatCalls
  /\ Idle

GetVatRate ==
  /\ pc = "call"
  /\ call.op = "get_vat_rate"
  /\ call' = [call EXCEPT !.result =
                get_vat_rate(call.task, call.country, call.conditions)]
  /\ pc' = "returned"
  /\ UNCHANGED <<parsed, idx, zone_tasks, returned, zone_total, quote>>

NextVat == GetVatRate

SpecVat == InitVat /\ [][NextVat]_vars

\* ------------------------------------------------------------------------
\* _calculate_confidence_score called on its own
\* ------------------------------------------------------------------------
ConfidenceInputs ==
  [ location : Locations,
    budget_preference : {"standard"},
    room_size : RoomSizes,
    tasks : SeqsUpTo({"painting"}, MaxConfTasks),
    confidence_flags : SeqsUpTo({"room_size_estimated"}, MaxConfFlags) ]

InitConfidence ==
  /\ pc = "call"
  /\ call \in [ op : {"_calculate_confidence_score"},
                parsed_data : ConfidenceInputs, result : {Pending} ]
  /\ Idle

CalculateConfidenceScore ==
  /\ pc = "call"
  /\ call.op = "_calculate_confidence_score"
  /\ call' = [call EXCEPT !.result =
                Ok(_calculate_confidence_score(call.parsed_data, <<>>))]
  /\ pc' = "returned"
  /\ UNCHANGED <<parsed, idx, zone_tasks, returned, zone_total, quote>>

NextConfidence == CalculateConfidenceScore

SpecConfidence == InitConfidence /\ [][NextConfidence]_vars

\* ------------------------------------------------------------------------
\* _apply_vat_conditions called on its own
\* ------------------------------------------------------------------------
VatCategories == {"standard", "reduced", "super_reduced", "zero"}

\* get_vat_rate passes a resolved country and a non-empty mapping
VatConditionCalls ==
  [ op : {"_apply_vat_conditions"}, base_category : VatCategories,
    country : DOMAIN vat_rates,
    conditions : {c \in Conditions : c.present /\ c.keys # {}},
    result : {Pending} ]

InitVatConditions ==
  /\ pc = "call"
  /\ call \in VatConditionCalls
  /\ Idle

ApplyVatConditions ==
  /\ pc = "call"
  /\ call.op = "_apply_vat_conditions"
  /\ call' = [call EXCEPT !.result =
                Ok(_apply_vat_conditions(call.base_category, call.country,
                                         call.conditions))]
  /\ pc' = "returned"
  /\ UNCHANGED <<parsed, idx, zone_tasks, returned, zone_total, quote>>

NextVatConditions == ApplyVatConditions

SpecVatConditions == InitVatConditions /\ [][NextVatConditions]_vars

\* ------------------------------------------------------------------------
\* calculate_labor_hours called on its own
\* ------------------------------------------------------------------------
\* complexity factors a caller can name: configured ones and an unknown one
FactorNames == {"difficult_access", "new_construction", "small_room",
                "double_height"}

LaborCalls ==
  [ op : {"calculate_labor_hours"},
    task : ConfiguredTasks \cup {"demolition_extra"},
    room_size : RoomSizes,
    complexity_factors : SeqsUpTo(FactorNames, MaxFactors),
    result : {Pending} ]

InitLabor ==
  /\ pc = "call"
  /\ call \in LaborCalls
  /\ Idle

CalculateLaborHours ==
  /\ pc = "call"
  /\ call.op = "calculate_labor_hours"
  /\ \E h \in calculate_labor_hours(call.task, call.room_size,
                                     call.complexity_factors) :
       call' = [call EXCEPT !.result = Ok(h)]
  /\ pc' = "returned"
  /\ UNCHANGED <<parsed, idx, zone_tasks, returned, zone_total, quote>>

NextLabor == CalculateLaborHours

SpecLabor == InitLabor /\ [][NextLabor]_vars

\* ------------------------------------------------------------------------
\* Properties
\* ------------------------------------------------------------------------
PricingReturned ==
  /\ pc = "returned"
  /\ call.op = "_calculate_task_pricing"
  /\ call.result.ok

\* |total_price - (materials_cost + labor_cost) * (1 + margin_rate)
\*                * (1 + vat_rate)| <= tolerance, on the stored fields of a
\* TaskPricing r with non-negative costs; tolerance in E4
WithinTolerance(r, tolerance) ==
  LET d == BigMul(BigMul(ToDigits(r.materials_cost + r.labor_cost),
                         1000 + r.margin_rate), 1000 + r.vat_rate)
      q == FromDigits(DropLow(d, 4))
  IN  /\ q >= r.total_price - tolerance
      /\ \/ q < r.total_price + tolerance
         \/ q = r.total_price + tolerance /\ LowIsZero(d, 4)

\* C1 as stated: for every task, valid budget tier, location and positive
\* room size the returned total_price is within 0.01 of
\* (materials_cost + labor_cost) * (1 + margin_rate) * (1 + vat_rate)
C1_TotalWithinOneCent ==
  (PricingReturned /\ call.room_size > 0)
    => WithinTolerance(call.result, 100)

\* C1 amended: the same identity holds within 0.025, the slack that the
\* independent rounding of materials_cost, labor_cost and total_price needs
C1_TotalWithinTolerance ==
  (PricingReturned /\ call.room_size > 0)
    => WithinTolerance(call.result, 250)

\* a pricing whose stored fields miss the identity by more than 0.01
C1_Witness ==
  /\ PricingReturned
  /\ call.room_size > 0
  /\ ~WithinTolerance(call.result, 100)
  /\ WithinTolerance(call.result, 250)

\* C2: once the quote is composed each task's stored total_price is the
\* returned total_price times the multiplier resolved from the location,
\* applied once; until then it is the returned value itself
C2_CityMultiplierOnce ==
  LET m == IF parsed.location \in DOMAIN city_multipliers
           THEN city_multipliers[parsed.location] ELSE 100
  IN  /\ DOMAIN zone_tasks = DOMAIN returned
      /\ \A t \in DOMAIN zone_tasks :
           IF pc \in {"summary", "confidence", "done"}
           THEN \* the returned total is a whole number c of cents, in E4
                \E c \in {returned[t].total_price \div 100} :
                  /\ returned[t].total_price = c * 100
                  /\ zone_tasks[t].total_price = c * m
           ELSE zone_tasks[t].total_price = returned[t].total_price

\* a finished quote in which a multiplier other than 1.0 changed a price
C2_Witness ==
  /\ pc = "done"
  /\ parsed.location = "paris"
  /\ \E t \in DOMAIN zone_tasks :
       /\ returned[t].total_price > 0
       /\ zone_tasks[t].total_price = (returned[t].total_price \div 4) * 5

\* C3: _calculate_dynamic_margin never returns less than 0.15, and no
\* returned TaskPricing has a margin_rate below 0.15
C3_MarginFloor ==
  pc = "returned" =>
    /\ call.op = "_calculate_dynamic_margin"
         => call.result.v >= margin_protection_min * 100
    /\ (call.op = "_calculate_task_pricing" /\ call.result.ok)
         => call.result.margin_rate >= margin_protection_min

\* the lowest margin the tables produce: budget_conscious, not complex
C3_Witness ==
  /\ pc = "returned"
  /\ call.op = "_calculate_dynamic_margin"
  /\ call.budget_pref = "budget_conscious"
  /\ call.task \notin complex_tasks
  /\ call.result.v = 16000

\* C4 as stated, on its own example: in the quote returned for painting,
\* 10 m2, standard, paris the stored per-task total_price is rounded to
\* 2 decimals (a whole number of cents in E4) and is 799.43; the fields the
\* model keeps in cents are rounded by construction
C4_TotalPriceRounded ==
  (/\ pc = "done"
   /\ parsed.tasks = <<"painting">>
   /\ parsed.room_size = 10000
   /\ parsed.budget_preference = "standard"
   /\ parsed.location = "paris") =>
    /\ zone_tasks["painting"].total_price % 100 = 0
    /\ zone_tasks["painting"].total_price = 7994300

KnownCountries == {"france", "germany", "spain", "italy"}

\* C5: get_vat_rate returns, without a key error, one of the rates of the
\* resolved country, and the category it looks up is one that country defines
C5_VatRateConfigured ==
  (pc = "returned" /\ call.op = "get_vat_rate") =>
    LET c == IF Lower(call.country) \in KnownCountries
             THEN Lower(call.country) ELSE "france"
    IN  /\ call.result.ok
        /\ call.result.v \in {vat_rates[c][k] : k \in DOMAIN vat_rates[c]}
        /\ VatCategory(call.task, c, call.conditions) \in DOMAIN vat_rates[c]

\* an override in the one country without a super_reduced rate
C5_Witness ==
  /\ pc = "returned"
  /\ call.op = "get_vat_rate"
  /\ call.country = "GERMANY"
  /\ "energy_efficiency" \in call.conditions.keys
  /\ call.conditions.energy_efficiency
  /\ call.result.ok
  /\ call.result.v = 70

ConfidenceReturned ==
  /\ pc = "returned"
  /\ call.op = "_calculate_confidence_score"

\* 1.0 - 0.1 per flag - 0.1 under 3 tasks - 0.15 outside [2, 30] m2
\* + 0.05 for a known city, in 1/100
RawConfidence(p) ==
  100 - 10 * Len(p.confidence_flags)
      - (IF Len(p.tasks) < 3 THEN 10 ELSE 0)
      - (IF p.room_size >= 2000 /\ p.room_size <= 30000 THEN 0 ELSE 15)
      + (IF p.location \in DOMAIN city_multipliers THEN 5 ELSE 0)

\* C6: the confidence score is the penalised score clamped to [0, 1]
C6_ConfidenceClamped ==
  ConfidenceReturned =>
    LET raw == RawConfidence(call.parsed_data)
    IN  /\ call.result.v >= 0
        /\ call.result.v <= 100
        /\ call.result.v = IF raw < 0 THEN 0 ELSE IF raw > 100 THEN 100
                           ELSE raw

\* enough flags to drive the penalised score below zero
C6_Witness ==
  /\ ConfidenceReturned
  /\ RawConfidence(call.parsed_data) < 0
  /\ call.result.v = 0

\* a task absent from every table, priced at a location whose lower-cased
\* name has no rate table, with a valid tier and a positive room size
Unconfigured(c) ==
  /\ c.task \notin DOMAIN materials_data
  /\ c.task \notin DOMAIN labor_hours_data
  /\ c.task \notin DOMAIN task_vat_categories
  /\ Lower(c.location) \notin DOMAIN hourly_rates
  /\ c.budget_pref \in ValidBudgets
  /\ c.room_size > 0

\* C7: pricing an unconfigured task at an unknown location completes and
\* uses the fallbacks: room_size * 30/50/80, max(4, 2 * room_size) hours,
\* the general rate of marseille, the standard VAT rate
C7_Fallbacks ==
  (pc = "returned" /\ call.op = "_calculate_task_pricing"
     /\ Unconfigured(call)) =>
    LET r == call.result
        rate == CASE call.budget_pref = "budget_conscious" -> 30
                  [] call.budget_pref = "standard" -> 50
                  [] call.budget_pref = "premium" -> 80
    IN  /\ r.ok
        /\ r.materials_cost * 10 = call.room_size * rate
        /\ r.labor_hours = IF call.room_size * 2 > 4000
                           THEN call.room_size * 2 ELSE 4000
        /\ r.labor_rate = hourly_rates.marseille.general
        /\ r.vat_rate = vat_rates.france.standard

\* the example of an unknown task in a 6 m2 room
C7_Witness ==
  /\ PricingReturned
  /\ Unconfigured(call)
  /\ call.task = "demolition_extra"
  /\ call.room_size = 6000
  /\ call.budget_pref = "standard"
  /\ call.result.materials_cost = 30000
  /\ call.result.labor_hours = 12000

\* C8: an empty task list never raises and yields a quote without tasks,
\* with every total and the average margin 0 and the under-3-tasks penalty
\* in the confidence score
C8_EmptyTaskList ==
  parsed.tasks = <<>> =>
    /\ pc # "raised"
    /\ DOMAIN zone_tasks = {}
    /\ pc = "done" =>
         /\ quote.zone_total = 0
         /\ quote.summary.total_materials = 0
         /\ quote.summary.total_labor = 0
         /\ quote.summary.subtotal_before_vat = 0
         /\ quote.summary.total_vat = 0
         /\ quote.summary.total_price = 0
         /\ quote.summary.average_margin = 0
         /\ quote.confidence_score =
              Max2(0, 90 - 10 * Len(parsed.confidence_flags)
                      - (IF parsed.room_size >= 2000
                            /\ parsed.room_size <= 30000 THEN 0 ELSE 15)
                      + (IF parsed.location \in DOMAIN city_multipliers
                         THEN 5 ELSE 0))

\* a finished quote for an empty task list
C8_Witness ==
  /\ pc = "done"
  /\ parsed.tasks = <<>>
  /\ parsed.location = "paris"
  /\ parsed.room_size = 10000
  /\ parsed.confidence_flags = <<>>
  /\ quote.summary.ok
  /\ quote.confidence_score = 95

\* C9 as stated: an input with room_size <= 0 is rejected before any task
\* is priced and no quote is produced for it
C9_NonPositiveRoomRejected ==
  parsed.room_size <= 0 =>
    /\ DOMAIN zone_tasks = {}
    /\ pc # "done"

\* x is total * m / 100 rounded to the nearest integer
NearestScaled(x, total, m) == Abs(x * 100 - total * m) <= 50

\* C10: each summary aggregate is the sum of the stored per-task values
\* (materials_cost; labor_cost; materials_cost + labor_cost; vat_amount)
\* times the city multiplier, rounded to cents, and the per-task
\* materials_cost, labor_cost, margin_amount and vat_amount stay as
\* _calculate_task_pricing returned them
C10_SummaryScaledTasksUnscaled ==
  pc \in {"confidence", "done"} =>
    LET T == DOMAIN zone_tasks
        m == IF parsed.location \in DOMAIN city_multipliers
             THEN city_multipliers[parsed.location] ELSE 100
        mat == SumOver([t \in T |-> zone_tasks[t].materials_cost], T)
        lab == SumOver([t \in T |-> zone_tasks[t].labor_cost], T)
        vat == SumOver([t \in T |-> zone_tasks[t].vat_amount], T)
    IN  /\ NearestScaled(quote.summary.total_materials, mat, m)
        /\ NearestScaled(quote.summary.total_labor, lab, m)
        /\ NearestScaled(quote.summary.subtotal_before_vat, mat + lab, m)
        /\ NearestScaled(quote.summary.total_vat, vat, m)
        /\ \A t \in T :
             /\ zone_tasks[t].materials_cost = returned[t].materials_cost
             /\ zone_tasks[t].labor_cost = returned[t].labor_cost
             /\ zone_tasks[t].margin_amount = returned[t].margin_amount
             /\ zone_tasks[t].vat_amount = returned[t].vat_amount

\* a finished quote of two tasks whose summary is scaled by 1.25
C10_Witness ==
  /\ pc = "done"
  /\ parsed.location = "paris"
  /\ parsed.room_size > 0
  /\ Cardinality(DOMAIN zone_tasks) = 2
  /\ quote.summary.total_materials >
       SumOver([t \in DOMAIN zone_tasks |-> zone_tasks[t].materials_cost],
               DOMAIN zone_tasks)

\* the configured factors among those the caller named
ConfiguredFactors(factors) ==
  SelectSeq(factors, LAMBDA f : f \in DOMAIN complexity_multipliers)

\* the product of the multipliers (hundredths) of a sequence of factors
RECURSIVE FactorProduct(_)
FactorProduct(factors) ==
  IF factors = <<>> THEN 1
  ELSE complexity_multipliers[Head(factors)] * FactorProduct(Tail(factors))

\* the one room-size factor, in hundredths (100 when there is none)
RoomFactor(room_size) ==
  IF room_size < 5000 THEN 110
  ELSE IF room_size > 15000 THEN 95
  ELSE 100

\* C11: for a configured task calculate_labor_hours returns
\* (base_hours + hours_per_m2 * room_size) * difficulty_multiplier times
\* every configured caller factor times the one room-size factor (1.1 below
\* 5 m2, 0.95 above 15 m2, none between), with or without caller factors,
\* rounded to 2 decimals
C11_LaborHoursFormula ==
  (/\ pc = "returned"
   /\ call.op = "calculate_labor_hours"
   /\ call.task \in DOMAIN labor_hours_data) =>
    LET t == labor_hours_data[call.task]
        base == (t.base_hours * 10000 + t.hours_per_m2 * call.room_size)
                * t.difficulty_multiplier
        fs == ConfiguredFactors(call.complexity_factors)
        \* exact hours in units of 10^-(7 + 2 * Len(fs))
        d == BigMul(BigMul(ToDigits(Abs(base)), FactorProduct(fs)),
                    RoomFactor(call.room_size))
        centi == RoundDigits(d, 5 + 2 * Len(fs))
    IN  /\ call.result.ok
        /\ call.result.v % 10 = 0
        /\ \E c \in centi :
             call.result.v = (IF base < 0 THEN 0 - c ELSE c) * 10

\* a small room priced with a caller-supplied factor: both factors apply
C11_Witness ==
  /\ pc = "returned"
  /\ call.op = "calculate_labor_hours"
  /\ call.task = "painting"
  /\ call.room_size = 2000
  /\ call.complexity_factors = <<"difficult_access">>
  /\ call.result.v = 3350

\* a condition that is present in the mapping and true
ConditionHolds(c, key) == key \in c.keys /\ c[key]

\* C12: the conditions override the base category in strict priority:
\* energy_efficiency gives the energy-certification override of the
\* country; otherwise accessibility_improvements gives the accessibility
\* override; otherwise, in france with building_age_years > 2, standard
\* becomes reduced; in every other case the base category is returned
C12_VatConditionPriority ==
  (pc = "returned" /\ call.op = "_apply_vat_conditions") =>
    LET c == call.conditions
        age == IF "building_age_years" \in c.keys
               THEN c.building_age_years ELSE 0
    IN  call.result.v =
          CASE ConditionHolds(c, "energy_efficiency") ->
                 vat_conditions.energy_certification[call.country]
            [] ~ConditionHolds(c, "energy_efficiency")
               /\ ConditionHolds(c, "accessibility_improvements") ->
                 vat_conditions.accessibility_improvements[call.country]
            [] OTHER ->
                 IF call.country = "france" /\ age > 2
                    /\ call.base_category = "standard"
                 THEN "reduced"
                 ELSE call.base_category

\* an old building outside france: the base category standard is kept
C12_Witness ==
  /\ pc = "returned"
  /\ call.op = "_apply_vat_conditions"
  /\ call.country = "germany"
  /\ call.base_category = "standard"
  /\ call.conditions.keys = {"building_age_years"}
  /\ call.conditions.building_age_years = 3
  /\ call.result.v = "standard"

\* C13: the zone_total of the quote and summary.total_price equal the sum
\* of the stored total_price of the tasks recorded in the zone's task
\* mapping, up to the rounding to cents, also when a task identifier occurs
\* more than once in the task list (stated for rooms of 2 m2 and more)
C13_ZoneTotalIsSumOfTasks ==
  (pc = "done" /\ parsed.room_size >= 2000) =>
    LET T == DOMAIN zone_tasks
        stored == SumOver([t \in T |-> zone_tasks[t].total_price], T)
    IN  /\ zone_total = stored
        /\ Abs(quote.zone_total * 100 - stored) <= 50
        /\ Abs(quote.summary.total_price * 100 - stored) <= 50

\* the same statement for task lists without a repeated identifier
C13_DistinctTasksSum ==
  (/\ pc = "done"
   /\ \A i, j \in 1..Len(parsed.tasks) :
        parsed.tasks[i] = parsed.tasks[j] => i = j) =>
    LET T == DOMAIN zone_tasks
        stored == SumOver([t \in T |-> zone_tasks[t].total_price], T)
    IN  /\ zone_total = stored
        /\ Abs(quote.zone_total * 100 - stored) <= 50
        /\ Abs(quote.summary.total_price * 100 - stored) <= 50

\* the hourly rate of city c for the skill level of a task
CityRate(c, task) ==
  hourly_rates[c][IF task \in DOMAIN labor_hours_data
                  THEN labor_hours_data[task].skill_level
                  ELSE "general"]

\* every task of the quote is priced at the hourly rates of city c
UsesRatesOf(c) ==
  \A t \in DOMAIN zone_tasks : zone_tasks[t].labor_rate = CityRate(c, t)

\* the confidence score of the quote includes the known-city bonus
BonusGranted ==
  LET before == 100 - 10 * Len(parsed.confidence_flags)
                    - (IF Len(parsed.tasks) < 3 THEN 10 ELSE 0)
                    - (IF parsed.room_size >= 2000
                          /\ parsed.room_size <= 30000 THEN 0 ELSE 15)
  IN  quote.confidence_score = Max2(0, Min2(100, before + 5))

\* C14: a finished quote of at least one task uses the hourly rates of a known city (other than
\* the default the rates fall back to) exactly when that city's multiplier
\* is applied and the known-city confidence bonus is granted, whatever the
\* letter case of the location (stated for rooms of 2 m2 and more)
C14_LocationResolvedOnce ==
  (pc = "done" /\ parsed.tasks # <<>> /\ parsed.room_size >= 2000) =>
    \A c \in (DOMAIN hourly_rates) \ {"marseille"} :
      UsesRatesOf(c) <=>
        /\ c \in DOMAIN city_multipliers
        /\ quote.summary.city_multiplier = city_multipliers[c]
        /\ BonusGranted

\* the same statement for locations written in lower case
C14_LowerCaseResolvedOnce ==
  (/\ pc = "done"
   /\ parsed.tasks # <<>>
   /\ Lower(parsed.location) = parsed.location) =>
    \A c \in (DOMAIN hourly_rates) \ {"marseille"} :
      UsesRatesOf(c) <=>
        /\ c \in DOMAIN city_multipliers
        /\ quote.summary.city_multiplier = city_multipliers[c]
        /\ BonusGranted

====
